---- MODULE Spec2Model ----
(***************************************************************************)
(* Aho-Corasick keyword tree + automaton (src/src/automaton.cpp).          *)
(*                                                                         *)
(* The automaton owns a vector of nodes (index = node_id), a failure table *)
(* (index = node_id), the token alphabet and the flag uptodate.  Sequences *)
(* of TLA+ are 1-based, so node i is nodes[i + 1] and its failure entry is *)
(* fail_table[i + 1].  A NodePtr is modelled by the node's id; the null    *)
(* pointer is NULL.                                                        *)
(***************************************************************************)
EXTENDS Integers, Sequences, FiniteSets, TLC

VARIABLES
    nodes,       \* Automaton::nodes : sequence of Node records
    fail_table,  \* Automaton::fail_table : sequence of node ids
    uptodate,    \* Automaton::uptodate
    alphabet,    \* Automaton::alphabet
    op,          \* name of the last call made on the automaton
    arg,         \* its token sequence (pattern, prefix or text)
    val,         \* add: the value given
    flag,        \* get_matches: exclude_overlaps
    ret,         \* what the last call returned
    rebuilt,     \* get_matches: whether this call ran update_automaton
    builds,      \* history: how many times update_automaton has run
    adds         \* history: the add calls so far, in order

vars == <<nodes, fail_table, uptodate, alphabet, op, arg, val, flag, ret,
          rebuilt, builds, adds>>

----------------------------------------------------------------------------
(* Bounds of the model *)

MaxAdds == 2

NULL == -1

Tokens == {"a", "b"}

\* every contiguous piece of the sequence w, the empty one included
Pieces(w) ==
    {SubSeq(w, i, j) : i \in 1..(Len(w) + 1), j \in 0..Len(w)}

\* patterns: empty, single tokens, one a prefix, a suffix or an inner part
\* of another
Patterns == Pieces(<<"a", "b", "a">>)

Texts == Pieces(<<"a", "a", "b", "a">>)

\* the patterns added where the lookups are exercised; any of Patterns is
\* looked up
LookupAdds == Pieces(<<"a", "b">>)

\* the k-th add gives a value of its own: the code compares a value with the
\* empty string only, so equal non-empty values would show nothing more
Label(k) == "v" \o ToString(k)

\* where the empty value matters, the k-th add gives it or its own value
ValuesAt(k) == {"", Label(k)}

\* the orders in which a node's outgoing edges may be iterated
TokenOrders == {<<"a", "b">>, <<"b", "a">>}

\* the words of the example of the specification, each with its own value
Words == {<<"h", "e">>, <<"s", "h", "e">>, <<"h", "i", "s">>,
          <<"h", "e", "r", "s">>}

RECURSIVE Glue(_)
Glue(w) == IF w = <<>> THEN "" ELSE Head(w) \o Glue(Tail(w))

WordValue(w) == Glue(w)

WordTexts == {<<"u", "s", "h", "e", "r", "s">>, <<"h", "i", "s", "h", "e">>}

WordOrders == {<<"e", "h", "i", "r", "s", "u">>, <<"u", "s", "r", "i", "h", "e">>}

----------------------------------------------------------------------------
(* Node *)

Node(node_id, depth) ==
    [node_id |-> node_id, depth |-> depth, value |-> "",
     outs |-> <<>>, matches |-> <<>>]

get_outnode(node, elem) ==
    IF elem \in DOMAIN node.outs THEN node.outs[elem] ELSE NULL

set_outnode(node, elem, id) ==
    [node EXCEPT !.outs = (elem :> id) @@ node.outs]

set_value(node, value) == [node EXCEPT !.value = value]

add_match(node, id) == [node EXCEPT !.matches = Append(node.matches, id)]

----------------------------------------------------------------------------
(* Automaton *)

Automaton ==
    [nodes |-> <<Node(0, -1)>>, fail_table |-> <<>>, uptodate |-> FALSE,
     alphabet |-> {}]

NodeOf(A, id) == A.nodes[id + 1]

\* the loop of add that makes a new node for every token, sharing none
RECURSIVE add_walk_unshared(_, _, _, _)
add_walk_unshared(ns, node, pattern, depth) ==
    IF depth >= Len(pattern) THEN [nodes |-> ns, node |-> node]
    ELSE LET elem == pattern[depth + 1]
             newid == Len(ns)
             linked == [ns EXCEPT ![node + 1] = set_outnode(@, elem, newid)]
         IN add_walk_unshared(Append(linked, Node(newid, depth)), newid,
                              pattern, depth + 1)

\* the loop of add with a new node as deep as its prefix is long
RECURSIVE add_walk_length(_, _, _, _)
add_walk_length(ns, node, pattern, depth) ==
    IF depth >= Len(pattern) THEN [nodes |-> ns, node |-> node]
    ELSE LET elem == pattern[depth + 1]
             outnode == get_outnode(ns[node + 1], elem)
         IN IF outnode # NULL
            THEN add_walk_length(ns, outnode, pattern, depth + 1)
            ELSE LET newid == Len(ns)
                     linked == [ns EXCEPT ![node + 1] = set_outnode(@, elem, newid)]
                 IN add_walk_length(Append(linked, Node(newid, depth + 1)), newid,
                                    pattern, depth + 1)

\* the loop of add: returns the nodes and the node reached
RECURSIVE add_walk(_, _, _, _)
add_walk(ns, node, pattern, depth) ==
    IF depth >= Len(pattern) THEN [nodes |-> ns, node |-> node]
    ELSE LET elem == pattern[depth + 1]
             outnode == get_outnode(ns[node + 1], elem)
         IN IF outnode # NULL
            THEN add_walk(ns, outnode, pattern, depth + 1)
            ELSE LET newid == Len(ns)
                     linked == [ns EXCEPT ![node + 1] = set_outnode(@, elem, newid)]
                 IN add_walk(Append(linked, Node(newid, depth)), newid,
                             pattern, depth + 1)

\* add without line 53: the flag is left as it was
ClearUptodate_not(A) == A

ClearUptodate(A) == [A EXCEPT !.uptodate = FALSE]

\* add that sets the value of a new terminal only: no overwrite
add_keep(A, pattern, value) ==
    LET w == add_walk(A.nodes, 0, pattern, 0)
        n == w.node
        v == IF w.nodes[n + 1].value = "" THEN value ELSE w.nodes[n + 1].value
    IN ClearUptodate(
         [A EXCEPT
            !.nodes = [w.nodes EXCEPT ![n + 1] = add_match(set_value(@, v), n)],
            !.alphabet = A.alphabet \cup {pattern[i] : i \in 1..Len(pattern)}])

add(A, pattern, value) ==
    LET w == add_walk(A.nodes, 0, pattern, 0)
        n == w.node
    IN ClearUptodate(
         [A EXCEPT
            !.nodes = [w.nodes EXCEPT ![n + 1] = add_match(set_value(@, value), n)],
            !.alphabet = A.alphabet \cup {pattern[i] : i \in 1..Len(pattern)}])

RECURSIVE find_node_from(_, _, _, _)
find_node_from(A, node, prefix, idx) ==
    IF idx >= Len(prefix) THEN node
    ELSE LET outnode == get_outnode(NodeOf(A, node), prefix[idx + 1])
         IN IF outnode # NULL THEN find_node_from(A, outnode, prefix, idx + 1)
            ELSE NULL

find_node(A, prefix) == find_node_from(A, 0, prefix, 0)

has_pattern(A, pattern) ==
    LET node == find_node(A, pattern)
    IN node # NULL /\ NodeOf(A, node).value # ""

\* has_prefix that is true only when no node lies along the path: the first
\* token has no edge out of the root
has_prefix_no_path(A, prefix) ==
    prefix # <<>> /\ find_node(A, SubSeq(prefix, 1, 1)) = NULL

\* has_prefix with the meaning its name suggests
has_prefix_present(A, prefix) ==
    LET node == find_node(A, prefix)
    IN node # NULL

has_prefix(A, prefix) ==
    LET node == find_node(A, prefix)
    IN node = NULL

get_value(A, pattern) ==
    LET node == find_node(A, pattern)
    IN IF node # NULL THEN NodeOf(A, node).value ELSE ""

\* goto_node without the else-if of line 90: the root answers its edges only
goto_node_no_loop(ns, node_id, elem) ==
    LET node == ns[node_id + 1]
    IN IF elem \in DOMAIN node.outs THEN node.outs[elem] ELSE NULL

goto_node(ns, node_id, elem) ==
    LET node == ns[node_id + 1]
    IN IF elem \in DOMAIN node.outs THEN node.outs[elem]
       ELSE IF node_id = 0 THEN 0
       ELSE NULL

----------------------------------------------------------------------------
(* Walks along the failure table.  A walk that would read the table out of *)
(* range, or that has not ended after one step per node, is reported as a  *)
(* fault instead of a node id.                                             *)

OUT_OF_RANGE == -2
NO_END == -3

FailEntry(ft, node_id) ==
    IF node_id + 1 \in DOMAIN ft THEN ft[node_id + 1] ELSE OUT_OF_RANGE

\* while (goto_node(id, elem) == NULL) id = fail_table[id];
RECURSIVE follow_fail(_, _, _, _, _)
follow_fail(ns, ft, node_id, elem, fuel) ==
    IF node_id < 0 THEN node_id
    ELSE IF goto_node(ns, node_id, elem) # NULL THEN node_id
    ELSE IF fuel = 0 THEN NO_END
    ELSE follow_fail(ns, ft, FailEntry(ft, node_id), elem, fuel - 1)

FaultOf(id) ==
    IF id = OUT_OF_RANGE THEN "out_of_range"
    ELSE IF id = NO_END THEN "no_end" ELSE "none"

\* the keys of a node's outs, in the order the iteration visits them
OutKeys(node, ord) == SelectSeq(ord, LAMBDA t : t \in DOMAIN node.outs)

\* update_automaton without lines 121-123: nothing is inherited
CopyMatches_none(dest_matches, fail_matches) == dest_matches

\* copy the matches of the fail node behind those of the dest node
CopyMatches(dest_matches, fail_matches) == dest_matches \o fail_matches

\* the inner for loop of update_automaton, over the edges of node_id
RECURSIVE update_edges(_, _, _, _)
update_edges(S, node_id, keys, k) ==
    IF k > Len(keys) \/ S.fault # "none" THEN S
    ELSE LET elem == keys[k]
             dest == S.nodes[node_id + 1].outs[elem]
             f == follow_fail(S.nodes, S.ft, FailEntry(S.ft, node_id), elem,
                              Len(S.nodes))
         IN IF f < 0 THEN [S EXCEPT !.fault = FaultOf(f)]
            ELSE LET target == goto_node(S.nodes, f, elem)
                     ft1 == [S.ft EXCEPT ![dest + 1] = target]
                     fail_node == S.nodes[ft1[dest + 1] + 1]
                     ns1 == [S.nodes EXCEPT ![dest + 1].matches =
                                CopyMatches(@, fail_node.matches)]
                 IN update_edges([S EXCEPT !.nodes = ns1, !.ft = ft1,
                                           !.Q = Append(S.Q, dest)],
                                 node_id, keys, k + 1)

\* the while loop of update_automaton, over the queue
RECURSIVE update_queue(_, _)
update_queue(S, ord) ==
    IF S.Q = <<>> \/ S.fault # "none" THEN S
    ELSE LET node_id == Head(S.Q)
             keys == OutKeys(S.nodes[node_id + 1], ord)
         IN update_queue(update_edges([S EXCEPT !.Q = Tail(S.Q)], node_id, keys, 1),
                         ord)

\* update_automaton that stops once the table is initialised: every entry
\* is the root
update_automaton_flat(A, ord) ==
    [aut |-> [A EXCEPT !.fail_table = [i \in 1..Len(A.nodes) |-> 0],
                       !.uptodate = TRUE],
     fault |-> "none"]

\* returns the automaton rebuilt and the fault met, if any
update_automaton(A, ord) ==
    LET root == A.nodes[1]
        rootkeys == OutKeys(root, ord)
        S0 == [nodes |-> A.nodes,
               ft |-> [i \in 1..Len(A.nodes) |-> 0],
               Q |-> [k \in 1..Len(rootkeys) |-> root.outs[rootkeys[k]]],
               fault |-> "none"]
        S == update_queue(S0, ord)
    IN [aut |-> [A EXCEPT !.nodes = S.nodes, !.fail_table = S.ft,
                          !.uptodate = TRUE],
        fault |-> S.fault]

----------------------------------------------------------------------------
(* Matching *)

Match(start, end, value) == [start |-> start, end |-> end, value |-> value]

\* start computed as idx - depth + 1, as if depth were the prefix length
Emit_plus_one(ns, node, idx) ==
    IF ns[node + 1].value # ""
    THEN [k \in 1..Len(ns[node + 1].matches) |->
            LET resnode == ns[ns[node + 1].matches[k] + 1]
            IN [start |-> idx - resnode.depth + 1, end |-> idx + 1,
                value |-> resnode.value]]
    ELSE <<>>

\* the matches pushed when the scan reaches node at position idx
Emit(ns, node, idx) ==
    IF ns[node + 1].value # ""
    THEN [k \in 1..Len(ns[node + 1].matches) |->
            LET resnode == ns[ns[node + 1].matches[k] + 1]
            IN Match(idx - resnode.depth, idx + 1, resnode.value)]
    ELSE <<>>

\* the for loop of get_matches
RECURSIVE scan(_, _, _, _, _)
scan(A, text, idx, node_id, matches) ==
    IF idx >= Len(text) THEN [matches |-> matches, fault |-> "none"]
    ELSE LET f == follow_fail(A.nodes, A.fail_table, node_id, text[idx + 1],
                              Len(A.nodes))
         IN IF f < 0 THEN [matches |-> matches, fault |-> FaultOf(f)]
            ELSE LET node == goto_node(A.nodes, f, text[idx + 1])
                 IN scan(A, text, idx + 1, node,
                         matches \o Emit(A.nodes, node, idx))

\* remove_overlaps: stable sort by end, then keep a match only if its start
\* is not before the end of the last match kept
RECURSIVE InsertByEnd(_, _)
InsertByEnd(sorted, m) ==
    IF sorted = <<>> THEN <<m>>
    ELSE IF sorted[Len(sorted)].end <= m.end THEN Append(sorted, m)
    ELSE Append(InsertByEnd(SubSeq(sorted, 1, Len(sorted) - 1), m),
                sorted[Len(sorted)])

RECURSIVE SortByEnd(_)
SortByEnd(ms) ==
    IF ms = <<>> THEN <<>>
    ELSE InsertByEnd(SortByEnd(SubSeq(ms, 1, Len(ms) - 1)), ms[Len(ms)])

RECURSIVE KeepFrom(_, _, _)
KeepFrom(ms, k, kept) ==
    IF k > Len(ms) THEN kept
    ELSE IF kept = <<>> \/ ms[k].start >= kept[Len(kept)].end
         THEN KeepFrom(ms, k + 1, Append(kept, ms[k]))
         ELSE KeepFrom(ms, k + 1, kept)

remove_overlaps(matches) == KeepFrom(SortByEnd(matches), 1, <<>>)

\* get_matches that rebuilds on every call
NeedsUpdate_always(A) == TRUE

NeedsUpdate(A) == ~A.uptodate

\* get_matches without lines 151-153
Returned_all(matches, exclude_overlaps) == matches

Returned(matches, exclude_overlaps) ==
    IF exclude_overlaps THEN remove_overlaps(matches) ELSE matches

\* if (!uptodate) update_automaton();
Fresh(A, ord) ==
    LET run == NeedsUpdate(A)
        u == IF run THEN update_automaton(A, ord)
             ELSE [aut |-> A, fault |-> "none"]
    IN [aut |-> u.aut, fault |-> u.fault, rebuilt |-> run]

\* a scan that reports the matches of the root before the first token
Scanned_from_root(F, text) ==
    IF F.fault = "none" THEN scan(F.aut, text, 0, 0, Emit(F.aut.nodes, 0, -1))
    ELSE [matches |-> <<>>, fault |-> F.fault]

\* the scan of text from the root, on the automaton F.aut
Scanned(F, text) ==
    IF F.fault = "none" THEN scan(F.aut, text, 0, 0, <<>>)
    ELSE [matches |-> <<>>, fault |-> F.fault]

get_matches(A, text, exclude_overlaps, ord) ==
    LET F == Fresh(A, ord)
        s == Scanned(F, text)
    IN [aut |-> F.aut,
        matches |-> Returned(s.matches, exclude_overlaps),
        rebuilt |-> F.rebuilt,
        fault |-> s.fault]

----------------------------------------------------------------------------
(* The automaton as the state of the system *)

Aut == [nodes |-> nodes, fail_table |-> fail_table, uptodate |-> uptodate,
        alphabet |-> alphabet]

SetAut(A) ==
    /\ nodes' = A.nodes
    /\ fail_table' = A.fail_table
    /\ uptodate' = A.uptodate
    /\ alphabet' = A.alphabet

NoReturn == [matches |-> <<>>, fault |-> "none", found |-> FALSE, value |-> ""]

Init ==
    /\ nodes = Automaton.nodes
    /\ fail_table = Automaton.fail_table
    /\ uptodate = Automaton.uptodate
    /\ alphabet = Automaton.alphabet
    /\ op = "new"
    /\ arg = <<>>
    /\ val = ""
    /\ flag = FALSE
    /\ ret = NoReturn
    /\ rebuilt = FALSE
    /\ builds = 0
    /\ adds = <<>>

Add(pattern, value) ==
    /\ SetAut(add(Aut, pattern, value))
    /\ op' = "add"
    /\ arg' = pattern
    /\ val' = value
    /\ flag' = FALSE
    /\ ret' = NoReturn
    /\ rebuilt' = FALSE
    /\ adds' = Append(adds, [pattern |-> pattern, value |-> value])
    /\ UNCHANGED builds

\* the iteration order matters to a call only when it rebuilds
OrdersNow(orders) == IF uptodate THEN {CHOOSE o \in orders : TRUE} ELSE orders

\* get_matches(text, exclude_overlaps), whose rebuild is F and whose scan is s
GetMatchesOf(F, s, text, exclude_overlaps) ==
    /\ SetAut(F.aut)
    /\ op' = "get_matches"
    /\ arg' = text
    /\ val' = ""
    /\ flag' = exclude_overlaps
    /\ ret' = [NoReturn EXCEPT !.matches = Returned(s.matches, exclude_overlaps),
                               !.fault = s.fault]
    /\ rebuilt' = F.rebuilt
    /\ builds' = IF F.rebuilt THEN builds + 1 ELSE builds
    /\ UNCHANGED adds

\* the calls get_matches(text, e) for text in texts, the edges of a node
\* being iterated in one of orders
GetMatches(texts, orders) ==
    \E ord \in OrdersNow(orders) :
       LET F == Fresh(Aut, ord)
       IN \E text \in texts :
             LET s == Scanned(F, text)
             IN \E e \in BOOLEAN : GetMatchesOf(F, s, text, e)

\* has_pattern that brings the automaton up to date before it looks
HasPattern_building(pattern) ==
    /\ SetAut(Fresh(Aut, CHOOSE ord \in TokenOrders : TRUE).aut)
    /\ op' = "has_pattern"
    /\ arg' = pattern
    /\ val' = ""
    /\ flag' = FALSE
    /\ ret' = [NoReturn EXCEPT !.found = has_pattern(Aut, pattern)]
    /\ rebuilt' = FALSE
    /\ UNCHANGED <<builds, adds>>

HasPattern(pattern) ==
    /\ op' = "has_pattern"
    /\ arg' = pattern
    /\ val' = ""
    /\ flag' = FALSE
    /\ ret' = [NoReturn EXCEPT !.found = has_pattern(Aut, pattern)]
    /\ rebuilt' = FALSE
    /\ UNCHANGED <<nodes, fail_table, uptodate, alphabet, builds, adds>>

HasPrefix(prefix) ==
    /\ op' = "has_prefix"
    /\ arg' = prefix
    /\ val' = ""
    /\ flag' = FALSE
    /\ ret' = [NoReturn EXCEPT !.found = has_prefix(Aut, prefix)]
    /\ rebuilt' = FALSE
    /\ UNCHANGED <<nodes, fail_table, uptodate, alphabet, builds, adds>>

GetValue(pattern) ==
    /\ op' = "get_value"
    /\ arg' = pattern
    /\ val' = ""
    /\ flag' = FALSE
    /\ ret' = [NoReturn EXCEPT !.value = get_value(Aut, pattern)]
    /\ rebuilt' = FALSE
    /\ UNCHANGED <<nodes, fail_table, uptodate, alphabet, builds, adds>>

AddedPatterns == {adds[i].pattern : i \in 1..Len(adds)}

(* Patterns with non-empty values and texts over two tokens, matched *)
Next ==
    \/ \E pattern \in Patterns :
          Len(adds) < MaxAdds /\ Add(pattern, Label(Len(adds) + 1))
    \/ GetMatches(Texts, TokenOrders)

Spec == Init /\ [][Next]_vars

(* Patterns with empty and non-empty values, looked up *)
NextLookup ==
    \/ \E pattern \in LookupAdds, value \in ValuesAt(Len(adds) + 1) :
          Len(adds) < MaxAdds /\ Add(pattern, value)
    \/ \E ord \in OrdersNow(TokenOrders) :
          LET F == Fresh(Aut, ord)
          IN GetMatchesOf(F, Scanned(F, <<"a", "b">>), <<"a", "b">>, FALSE)
    \/ \E pattern \in Patterns : HasPattern(pattern)
    \/ \E prefix \in Patterns : HasPrefix(prefix)
    \/ \E pattern \in Patterns : GetValue(pattern)

SpecLookup == Init /\ [][NextLookup]_vars

(* The words he, she, his, hers, each added once, in any order *)
NextWords ==
    \/ \E w \in Words \ AddedPatterns : Add(w, WordValue(w))
    \/ GetMatches(WordTexts, WordOrders)

SpecWords == Init /\ [][NextWords]_vars

----------------------------------------------------------------------------
(* What the history of add calls says *)

RECURSIVE LatestIn(_, _, _)
LatestIn(h, p, k) ==
    IF k = 0 THEN ""
    ELSE IF h[k].pattern = p THEN h[k].value
    ELSE LatestIn(h, p, k - 1)

\* the value given by the most recent add(p, v), empty if p was never added
Latest(p) == LatestIn(adds, p, Len(adds))

IsPrefix(q, p) == Len(q) <= Len(p) /\ SubSeq(p, 1, Len(q)) = q

IsPrefixOfAdded(q) == \E p \in AddedPatterns : IsPrefix(q, p)

NonEmptyValues == \A i \in 1..Len(adds) : adds[i].value # ""

Range(f) == {f[i] : i \in DOMAIN f}

RECURSIVE SetToSeq(_)
SetToSeq(S) ==
    IF S = {} THEN <<>>
    ELSE LET x == CHOOSE y \in S : TRUE IN <<x>> \o SetToSeq(S \ {x})

\* an automaton that received the same add calls, in the same order, and
\* has not been built
RECURSIVE Replay(_, _)
Replay(h, k) ==
    IF k = 0 THEN Automaton
    ELSE add(Replay(h, k - 1), h[k].pattern, h[k].value)

BuiltOnce == Replay(adds, Len(adds))

IsMatching == op = "get_matches" /\ ret.fault = "none"

----------------------------------------------------------------------------
(* C1: after add calls with non-empty values, get_matches(text, false)      *)
(* reports every occurrence of every inserted non-empty pattern p: for      *)
(* every position s with text[s .. s+|p|) = p the result holds              *)
(* (s, s+|p|, get_value(p)).                                                *)
C1_Complete ==
    (op = "get_matches" /\ ~flag /\ NonEmptyValues) =>
        \A p \in AddedPatterns \ {<<>>} :
            \A s \in 0..(Len(arg) - Len(p)) :
                SubSeq(arg, s + 1, s + Len(p)) = p =>
                    Match(s, s + Len(p), get_value(Aut, p)) \in Range(ret.matches)

Ushers == <<"u", "s", "h", "e", "r", "s">>

(* C2: on a new automaton, after add of he, she, his, hers with distinct    *)
(* values in any order, get_matches over the tokens of 'ushers' with        *)
(* exclude_overlaps = false returns she at [1,4), he at [2,4) and hers at   *)
(* [2,6), and no other match.                                               *)
C2_Ushers ==
    (op = "get_matches" /\ arg = Ushers /\ ~flag /\ AddedPatterns = Words
        /\ builds = 1) =>
        /\ Range(ret.matches) = {Match(1, 4, "she"), Match(2, 4, "he"),
                                 Match(2, 6, "hers")}
        /\ Len(ret.matches) = 3

C2_Witness ==
    /\ op = "get_matches" /\ arg = Ushers /\ ~flag /\ AddedPatterns = Words
    /\ builds = 1 /\ rebuilt
    /\ adds[1].pattern = <<"h", "e", "r", "s">>
    /\ Len(ret.matches) = 3

(* C3: the trie is a map from patterns to values: get_value(p) is the value *)
(* given by the most recent add(p, v), or empty if p was never added, and   *)
(* has_pattern(p) is true iff that value is non-empty; in particular right  *)
(* after add(p, v) with v non-empty, and whatever other pattern is added.   *)
C3_Map ==
    /\ \A p \in Patterns :
          /\ get_value(Aut, p) = Latest(p)
          /\ has_pattern(Aut, p) <=> (Latest(p) # "")
    /\ op = "get_value" => ret.value = Latest(arg)
    /\ op = "has_pattern" => (ret.found <=> (Latest(arg) # ""))
    /\ (op = "add" /\ val # "") =>
          (has_pattern(Aut, arg) /\ get_value(Aut, arg) = val)

C3_Witness ==
    /\ op = "get_value" /\ Len(adds) = 2
    /\ adds[1].pattern = <<"a">> /\ adds[1].value # ""
    /\ adds[2].pattern = <<"a", "b">> /\ adds[2].value # ""
    /\ arg = <<"a">> /\ ret.value = adds[1].value
    /\ builds = 1

(* C4: uptodate is false on a new automaton and after every add; a          *)
(* get_matches call that starts with it false runs update_automaton; the    *)
(* scan runs with the flag true and one failure entry per node; the flag is *)
(* true when get_matches returns and stays true until the next add.         *)
C4_LazyRebuild ==
    /\ [](op \in {"new", "add"} => ~uptodate)
    /\ [](op = "get_matches" =>
            (uptodate /\ Len(fail_table) = Len(nodes) /\ ret.fault = "none"))
    /\ [](uptodate => Len(fail_table) = Len(nodes))
    /\ [][(op' = "get_matches" /\ ~uptodate) => rebuilt']_vars
    /\ [][(uptodate /\ ~uptodate') => op' = "add"]_vars

C4_Witness ==
    /\ op = "get_matches" /\ rebuilt /\ builds = 2 /\ Len(adds) = 2
    /\ uptodate /\ Len(fail_table) = Len(nodes) /\ Len(nodes) > 2

NoDuplicates(ms) == \A i, j \in 1..Len(ms) : ms[i] = ms[j] => i = j

(* C5: whatever the interleaving of add and get_matches calls, a final      *)
(* get_matches(text, false) returns the list, free of duplicates, that an   *)
(* automaton given the same add calls and built once would return.          *)
C5_HistoryIndependent ==
    (op = "get_matches" /\ ~flag) =>
        /\ ret.matches =
              get_matches(BuiltOnce, arg, FALSE, SetToSeq(alphabet)).matches
        /\ NoDuplicates(ret.matches)

(* C6: two consecutive get_matches calls with the same text and flag, with  *)
(* no add in between, return the same list; the second runs no              *)
(* update_automaton and leaves nodes (values, edges, outputs), the failure  *)
(* table and the flag unchanged.                                            *)
C6_Idempotent ==
    [][(op = "get_matches" /\ op' = "get_matches" /\ arg' = arg /\ flag' = flag)
          => (/\ ret' = ret
              /\ ~rebuilt'
              /\ nodes' = nodes
              /\ fail_table' = fail_table
              /\ uptodate' = uptodate)]_vars

C6_Witness ==
    /\ op = "get_matches" /\ ~rebuilt /\ builds = 2
    /\ Len(ret.matches) >= 2

(* C7: every (start, end, value) returned by get_matches(text, false) has   *)
(* 0 <= start <= end <= |text|, end one past a scan index, and              *)
(* text[start .. end) is an inserted pattern p with start = end - |p| and   *)
(* value = get_value(p).                                                    *)
C7_Sound ==
    (op = "get_matches" /\ ~flag) =>
        \A i \in 1..Len(ret.matches) :
            LET m == ret.matches[i]
            IN /\ 0 <= m.start /\ m.start <= m.end /\ m.end <= Len(arg)
               /\ m.end >= 1
               /\ LET p == SubSeq(arg, m.start + 1, m.end)
                  IN /\ p \in AddedPatterns
                     /\ m.start = m.end - Len(p)
                     /\ m.value = get_value(Aut, p)

C7_Witness ==
    /\ op = "get_matches" /\ ~flag
    /\ \E i, j \in 1..Len(ret.matches) :
          /\ ret.matches[i].end = ret.matches[j].end
          /\ ret.matches[i].start < ret.matches[j].start
          /\ ret.matches[i].start > 0

(* C8 as stated: has_prefix(q) is true iff find_node(q) finds nothing, that *)
(* is iff q is not a prefix of any inserted pattern.                        *)
C8_Original ==
    \A q \in Patterns :
        /\ has_prefix(Aut, q) <=> (find_node(Aut, q) = NULL)
        /\ has_prefix(Aut, q) <=> ~IsPrefixOfAdded(q)

(* C8: has_prefix(q) is true iff find_node(q) finds nothing, that is iff q  *)
(* is not empty and not a prefix of any inserted pattern; so it is false    *)
(* for the empty sequence and for every prefix of an inserted pattern, and  *)
(* has_pattern(q) implies not has_prefix(q).                                *)
C8_HasPrefixInverted ==
    /\ \A q \in Patterns :
          /\ has_prefix(Aut, q) <=> (find_node(Aut, q) = NULL)
          /\ has_prefix(Aut, q) <=> (q # <<>> /\ ~IsPrefixOfAdded(q))
          /\ has_pattern(Aut, q) => ~has_prefix(Aut, q)
    /\ op = "has_prefix" => (ret.found <=> (arg # <<>> /\ ~IsPrefixOfAdded(arg)))

C8_Witness ==
    /\ op = "has_prefix" /\ ~ret.found
    /\ arg = <<"a">> /\ arg \notin AddedPatterns
    /\ <<"a", "b">> \in AddedPatterns
    /\ has_prefix(Aut, <<"b">>)

(* C9: get_matches on an empty token sequence returns an empty list, for    *)
(* every set of inserted patterns (the empty pattern included) and both     *)
(* values of exclude_overlaps, and leaves the automaton fresh.              *)
C9_EmptyText ==
    (op = "get_matches" /\ arg = <<>>) =>
        (ret.matches = <<>> /\ ret.fault = "none" /\ uptodate)

C9_Witness ==
    /\ op = "get_matches" /\ arg = <<>> /\ flag /\ rebuilt
    /\ Len(adds) = 2 /\ adds[1].pattern = <<>> /\ adds[1].value # ""
    /\ ret.matches = <<>>

RECURSIVE IsSubList(_, _)
IsSubList(sub, ms) ==
    IF sub = <<>> THEN TRUE
    ELSE IF ms = <<>> THEN FALSE
    ELSE IF Head(sub) = Head(ms) THEN IsSubList(Tail(sub), Tail(ms))
    ELSE IsSubList(sub, Tail(ms))

Intersect(m1, m2) ==
    (IF m1.start > m2.start THEN m1.start ELSE m2.start)
        < (IF m1.end < m2.end THEN m1.end ELSE m2.end)

\* what get_matches(arg, false) returns in this state
FullList == get_matches(Aut, arg, FALSE, SetToSeq(alphabet)).matches

(* C10: with exclude_overlaps = true get_matches returns a sub-list of the  *)
(* list it returns with exclude_overlaps = false, in which no two matches   *)
(* have intersecting [start, end) ranges, and the same call on the same     *)
(* automaton gives the same list.                                           *)
C10_NoOverlaps ==
    (op = "get_matches" /\ flag) =>
        /\ IsSubList(ret.matches, FullList)
        /\ \A i, j \in 1..Len(ret.matches) :
              i # j => ~Intersect(ret.matches[i], ret.matches[j])
        /\ \A ord \in TokenOrders :
              get_matches(Aut, arg, TRUE, ord).matches = ret.matches

C10_Witness ==
    /\ op = "get_matches" /\ flag
    /\ Len(ret.matches) >= 1
    /\ Len(FullList) > Len(ret.matches)
    /\ \E i, j \in 1..Len(FullList) : i # j /\ Intersect(FullList[i], FullList[j])

----------------------------------------------------------------------------
(* The trie as it stands in nodes *)

\* the token sequence that leads from the root to node id
RECURSIVE PathOf(_, _)
PathOf(ns, id) ==
    IF id = 0 THEN <<>>
    ELSE LET parent == CHOOSE p \in 0..(Len(ns) - 1) :
                          \E t \in DOMAIN ns[p + 1].outs : ns[p + 1].outs[t] = id
             elem == CHOOSE t \in DOMAIN ns[parent + 1].outs :
                        ns[parent + 1].outs[t] = id
         IN Append(PathOf(ns, parent), elem)

NodeIds == 0..(Len(nodes) - 1)

\* the paths of the trie, one per node
TriePaths == {PathOf(nodes, id) : id \in NodeIds}

HasNode(q) == q \in TriePaths

NonEmptyPrefixes(q) == {SubSeq(q, 1, k) : k \in 1..Len(q)}

(* C11 as stated: whenever has_prefix(q) is true, no non-empty prefix of q  *)
(* has a node in the trie.                                                  *)
C11_Original ==
    \A q \in Patterns :
        has_prefix(Aut, q) => \A p \in NonEmptyPrefixes(q) : ~HasNode(p)

(* C11: whenever has_prefix(q) is true, q is not empty and the exact path q *)
(* has no node in the trie, while its shorter prefixes may have nodes:      *)
(* has_prefix is true for a sequence p.t when p is a trie path and p.t is   *)
(* not.                                                                     *)
C11_ExactPathAbsent ==
    /\ \A q \in Patterns :
          /\ has_prefix(Aut, q) => (q # <<>> /\ ~HasNode(q))
          /\ (q # <<>> /\ HasNode(SubSeq(q, 1, Len(q) - 1)) /\ ~HasNode(q))
                => has_prefix(Aut, q)
    /\ (op = "has_prefix" /\ ret.found) => (arg # <<>> /\ ~HasNode(arg))

C11_Witness ==
    /\ op = "has_prefix" /\ ret.found
    /\ arg = <<"b", "a">>
    /\ HasNode(<<"b">>) /\ ~HasNode(arg)

(* C12 as stated: the root has depth -1 and the depth of every other node   *)
(* is the length of the prefix the node represents.                         *)
C12_Original ==
    /\ nodes[1].depth = -1
    /\ \A id \in NodeIds \ {0} :
          nodes[id + 1].depth = Len(PathOf(nodes, id))

(* C12: in every reachable state the root has depth -1 and the depth of     *)
(* every other node is the length of the prefix it represents minus one,    *)
(* the index of the last token of that prefix; so a child is one deeper     *)
(* than its parent and a match ending at scan index idx starts at           *)
(* idx - depth.                                                             *)
C12_DepthIsLastIndex ==
    /\ nodes[1].depth = -1
    /\ \A id \in NodeIds \ {0} :
          nodes[id + 1].depth = Len(PathOf(nodes, id)) - 1
    /\ \A id \in NodeIds :
          \A t \in DOMAIN nodes[id + 1].outs :
             nodes[nodes[id + 1].outs[t] + 1].depth = nodes[id + 1].depth + 1
    /\ IsMatching =>
          \A i \in 1..Len(ret.matches) :
             \E id \in NodeIds :
                /\ nodes[id + 1].value = ret.matches[i].value
                /\ ret.matches[i].start =
                      (ret.matches[i].end - 1) - nodes[id + 1].depth

C12_Witness ==
    /\ IsMatching /\ Len(ret.matches) >= 2
    /\ \E id \in NodeIds :
          nodes[id + 1].depth = 2 /\ Len(PathOf(nodes, id)) = 3

\* the distinct non-empty prefixes of the patterns added so far
AddedPrefixes == UNION {NonEmptyPrefixes(p) : p \in AddedPatterns}

\* the node keeps its identity, its depth and the edges it has
KeepsShape(old, new) ==
    /\ new.node_id = old.node_id
    /\ new.depth = old.depth
    /\ \A t \in DOMAIN old.outs : t \in DOMAIN new.outs /\ new.outs[t] = old.outs[t]

C13_Shape ==
    /\ \A id \in NodeIds : nodes[id + 1].node_id = id
    /\ PathOf(nodes, 0) = <<>> /\ nodes[1].depth = -1
    /\ \A id \in NodeIds \ {0} :
          Cardinality({<<p, t>> \in NodeIds \X alphabet :
                          t \in DOMAIN nodes[p + 1].outs
                             /\ nodes[p + 1].outs[t] = id}) = 1
    /\ \A id \in NodeIds : find_node(Aut, PathOf(nodes, id)) = id
    /\ TriePaths = AddedPrefixes \cup {<<>>}
    /\ Len(nodes) = 1 + Cardinality(AddedPrefixes)

C13_AddAppends ==
    op' = "add" =>
        /\ Len(nodes') >= Len(nodes)
        /\ \A id \in NodeIds :
              /\ KeepsShape(nodes[id + 1], nodes'[id + 1])
              /\ nodes'[id + 1].value # nodes[id + 1].value
                    => PathOf(nodes', id) = arg'
        /\ \A id \in (0..(Len(nodes') - 1)) \ NodeIds :
              /\ IsPrefix(PathOf(nodes', id), arg')
              /\ PathOf(nodes', id) \notin TriePaths

C13_MatchKeeps ==
    op' = "get_matches" =>
        /\ Len(nodes') = Len(nodes)
        /\ \A id \in NodeIds :
              /\ KeepsShape(nodes[id + 1], nodes'[id + 1])
              /\ DOMAIN nodes'[id + 1].outs = DOMAIN nodes[id + 1].outs
              /\ nodes'[id + 1].value = nodes[id + 1].value

(* C13: in every reachable state nodes[i] has id i, node 0 is the root and  *)
(* there is exactly one node per distinct prefix of the inserted patterns,  *)
(* so the node count is 1 + the number of distinct non-empty prefixes; add  *)
(* only appends nodes and edges, keeps the id, depth and edges of every     *)
(* existing node and changes the value of the terminal node of its pattern  *)
(* only; get_matches, with its update_automaton, creates no node and no     *)
(* edge and changes no value.                                               *)
C13_TrieShape ==
    /\ []C13_Shape
    /\ [][C13_AddAppends]_vars
    /\ [][C13_MatchKeeps]_vars

C13_Witness ==
    /\ op = "add" /\ Len(adds) = 2 /\ builds = 1
    /\ adds[1].pattern = <<"a", "b">> /\ adds[2].pattern = <<"a", "b", "a">>
    /\ Len(nodes) = 4
    /\ nodes[3].value = adds[1].value /\ nodes[4].value = adds[2].value

\* q is a suffix of p, shorter than p
IsProperSuffix(q, p) ==
    Len(q) < Len(p) /\ SubSeq(p, Len(p) - Len(q) + 1, Len(p)) = q

\* the node of the longest proper suffix of the path of id that is a path
\* of the trie; the root when that suffix is empty
LongestSuffixNode(id) ==
    LET path == PathOf(nodes, id)
        cands == {c \in NodeIds : IsProperSuffix(PathOf(nodes, c), path)}
    IN CHOOSE c \in cands :
          \A d \in cands : Len(PathOf(nodes, d)) <= Len(PathOf(nodes, c))

\* the iteration orders that visit every token of the alphabet
OrdersOfAlphabet ==
    {ord \in TokenOrders \cup WordOrders : alphabet \subseteq Range(ord)}

(* C14: whenever the automaton is fresh, the failure entry of every         *)
(* non-root node v is the node of the longest proper suffix of v's path     *)
(* that is a path of the trie, the root when there is none; every direct    *)
(* child of the root fails to the root; and a rebuild gives the same table  *)
(* whatever the order in which the edges of a node are iterated.            *)
C14_FailureLinks ==
    uptodate =>
        /\ Len(fail_table) = Len(nodes)
        /\ \A id \in NodeIds \ {0} :
              /\ fail_table[id + 1] = LongestSuffixNode(id)
              /\ Len(PathOf(nodes, id)) = 1 => fail_table[id + 1] = 0
        /\ \A ord \in OrdersOfAlphabet :
              update_automaton(Aut, ord).aut.fail_table = fail_table

C14_Witness ==
    /\ uptodate /\ rebuilt /\ Len(nodes) = 6
    /\ \E v, w \in NodeIds :
          /\ Len(PathOf(nodes, v)) = 3
          /\ fail_table[v + 1] = w
          /\ Len(PathOf(nodes, w)) = 2
          /\ fail_table[w + 1] # 0

(* C15: the walks along failure entries end and stay within the table: the  *)
(* root answers every token, so no call of get_matches and no rebuild, in   *)
(* either iteration order, meets a walk without end or an index out of      *)
(* range; on a fresh automaton the failure target of every non-root node is *)
(* a node of strictly smaller depth, and the walk from any node on any      *)
(* token ends at a node.                                                    *)
C15_WalksEnd ==
    /\ \A t \in Tokens : goto_node(nodes, 0, t) # NULL
    /\ op = "get_matches" => ret.fault = "none"
    /\ \A ord \in OrdersOfAlphabet : update_automaton(Aut, ord).fault = "none"
    /\ uptodate =>
          /\ \A id \in NodeIds \ {0} :
                /\ fail_table[id + 1] \in NodeIds
                /\ nodes[fail_table[id + 1] + 1].depth < nodes[id + 1].depth
          /\ \A id \in NodeIds, t \in Tokens :
                follow_fail(nodes, fail_table, id, t, nodes[id + 1].depth + 1)
                   \in NodeIds

\* a scan of 'aba' with the patterns 'ab' and 'b' walks from 'ab' over 'b'
\* to the root
C15_Witness ==
    /\ op = "get_matches" /\ rebuilt /\ ret.fault = "none"
    /\ arg = <<"a", "b", "a">>
    /\ AddedPatterns = {<<"a", "b">>, <<"b">>}
    /\ \E id \in NodeIds \ {0} :
          /\ PathOf(nodes, id) = <<"a", "b">>
          /\ goto_node(nodes, id, "a") = NULL
          /\ fail_table[id + 1] # 0
          /\ goto_node(nodes, fail_table[id + 1], "a") = NULL
          /\ follow_fail(nodes, fail_table, id, "a", 2) = 0

\* the length of the longest suffix of text[0 .. e) that is a path of the
\* trie: the depth of the node the scan has reached after e tokens, plus one
ReachedLength(text, e) ==
    LET lens == {n \in 0..e : HasNode(SubSeq(text, e - n + 1, e))}
    IN CHOOSE n \in lens : \A k \in lens : k <= n

NonDecreasingEnd(ms) ==
    \A i, j \in 1..Len(ms) : i < j => ms[i].end <= ms[j].end

\* among the matches of one end position the own pattern of the node
\* reached comes first and the pattern lengths decrease strictly after it
SelfThenShorter(ms, text) ==
    \A i \in 1..Len(ms) :
        /\ (i = 1 \/ ms[i - 1].end # ms[i].end) =>
              ms[i].end - ms[i].start = ReachedLength(text, ms[i].end)
        /\ (i > 1 /\ ms[i - 1].end = ms[i].end) =>
              ms[i].end - ms[i].start < ms[i - 1].end - ms[i - 1].start

(* C16: for any sequence of add and get_matches calls,                      *)
(* get_matches(text, false) lists the matches in non-decreasing order of    *)
(* end position, and among the matches of one position the own pattern of   *)
(* the node reached comes first, followed by the inherited patterns in      *)
(* strictly decreasing length.                                              *)
C16_ResultOrder ==
    (op = "get_matches" /\ ~flag) =>
        /\ NonDecreasingEnd(ret.matches)
        /\ SelfThenShorter(ret.matches, arg)

\* the half of C16 about end positions alone
C16_EndsOnly == (op = "get_matches" /\ ~flag) => NonDecreasingEnd(ret.matches)

\* C16 for the result of the first build
C16_FirstBuild ==
    (op = "get_matches" /\ ~flag /\ builds = 1) =>
        SelfThenShorter(ret.matches, arg)

\* the outputs of node id, as a set of node ids
Outputs(id) == Range(nodes[id + 1].matches)

OwnOutput(id) == IF nodes[id + 1].value # "" THEN {id} ELSE {}

OutputsInherited(id) ==
    Outputs(id) = OwnOutput(id) \cup Outputs(fail_table[id + 1])

SelfInOutputs ==
    \A id \in NodeIds : nodes[id + 1].value # "" => id \in Outputs(id)

(* C17: whenever the automaton is fresh, the outputs of every non-root node *)
(* v, as a set, are v itself if its value is non-empty, united with the     *)
(* outputs of fail(v), the direct children of the root included, also when  *)
(* the empty pattern has given the root a value; in every state a node with *)
(* a non-empty value has itself in its outputs.                             *)
C17_OutputSets ==
    /\ uptodate => \A id \in NodeIds \ {0} : OutputsInherited(id)
    /\ SelfInOutputs

\* C17 for the nodes that are not direct children of the root
C17_BelowChildren ==
    /\ uptodate =>
          \A id \in NodeIds \ {0} : nodes[id + 1].depth > 0 => OutputsInherited(id)
    /\ SelfInOutputs

IsLookup(o) == o \in {"has_pattern", "has_prefix", "get_value"}

\* the automaton after the step
AutNext == [nodes |-> nodes', fail_table |-> fail_table',
            uptodate |-> uptodate', alphabet |-> alphabet']

\* what the four lookups answer for q on the automaton A
Answers(A, q) ==
    <<find_node(A, q), has_pattern(A, q), has_prefix(A, q), get_value(A, q)>>

C18_Frame ==
    IsLookup(op') =>
        /\ nodes' = nodes
        /\ fail_table' = fail_table
        /\ uptodate' = uptodate
        /\ alphabet' = alphabet
        /\ ~rebuilt' /\ builds' = builds

C18_SameAfterBuild ==
    op' = "get_matches" =>
        \A q \in Patterns : Answers(AutNext, q) = Answers(Aut, q)

(* C18: has_pattern, has_prefix and get_value, and find_node under them,    *)
(* leave nodes, edges, values, outputs, the failure table and the flag as   *)
(* they are and run no build; what they answer is the same on a stale       *)
(* automaton and after a get_matches has rebuilt it.                        *)
C18_LookupsReadOnly ==
    /\ [][C18_Frame]_vars
    /\ [][C18_SameAfterBuild]_vars
    /\ [](\A ord \in OrdersOfAlphabet :
             LET built == update_automaton(Aut, ord).aut
             IN \A q \in Patterns : Answers(built, q) = Answers(Aut, q))
    /\ []((op = "has_pattern" => ret.found = has_pattern(Aut, arg))
          /\ (op = "has_prefix" => ret.found = has_prefix(Aut, arg))
          /\ (op = "get_value" => ret.value = get_value(Aut, arg)))

C18_Witness ==
    /\ op = "has_pattern" /\ ret.found
    /\ ~uptodate /\ builds = 1 /\ Len(adds) = 2
    /\ arg = adds[1].pattern /\ arg # adds[2].pattern

(* C19: for any sequence of add calls, re-adds with the empty value         *)
(* included, every match returned by get_matches(text, false) has a         *)
(* non-empty value and has_pattern(text[start .. end)) is true at the time  *)
(* of the call: a pattern whose value is now empty is never reported.       *)
C19_RealPatterns ==
    (op = "get_matches" /\ ~flag) =>
        \A i \in 1..Len(ret.matches) :
            LET m == ret.matches[i]
            IN /\ m.value # ""
               /\ has_pattern(Aut, SubSeq(arg, m.start + 1, m.end))

\* C19 where every add has given a non-empty value
C19_NonEmptyValues == NonEmptyValues => C19_RealPatterns

====
